---- MODULE Spec2Model ----
(***************************************************************************)
(* Model of the tool-calling orchestrator of KimiCode-GUI:                 *)
(*   src-tauri/src/llm.rs   stream_chat, request_approval, execute_tool    *)
(*   src-tauri/src/main.rs  AppState, chat_stream, tool_approval_respond,  *)
(*                          cancel_chat, session_* commands                *)
(*   src-tauri/src/session.rs  SessionManager, load_messages               *)
(* Strings that the code concatenates or compares character-wise (session  *)
(* ids, tool-call ids, request ids) are sequences of one-character         *)
(* strings; all other strings are atoms.                                   *)
(***************************************************************************)
EXTENDS Naturals, Sequences, FiniteSets

(* ------------------------------ bounds --------------------------------- *)

\* number of chat_stream invocations (turns) the observer makes
MaxTurns == 2

\* largest number of tool calls in one model response
MaxCalls == 2

\* in Spec, at most this many rounds of a turn are answered with a response that
\* keeps the loop going (tool calls, or neither tool calls nor content)
MaxOpenRounds == 1

\* longest wire log given to load_messages
MaxLines == 4

\* in SpecStore, most messages a session's messages file is grown to by
\* session_save_message
MaxMessages == 2

(* ------------------------- program constants --------------------------- *)

MAX_TOOL_STEPS == 20

Turns == 1..MaxTurns

\* session ids the observer passes to chat_stream
SessionIds == { <<"s">>, <<"s", ":", "x">> }

CatalogNames == {"ReadFile", "Shell", "WriteFile", "StrReplaceFile", "SearchWeb", "FetchURL"}

\* A call's arguments payload is "full" (carries the required fields) or
\* "empty" ({}, also what an absent or unparsable payload is replaced by); an
\* id of << >> is an absent or empty id; "Bogus" is a name not in the Catalog.

(* ------------------------------ helpers -------------------------------- *)

\* one-character tags, used to build synthesized (Uuid) tool-call ids
Letters == <<"a", "b", "c", "d", "e", "f", "g", "h", "i", "j", "k", "l", "m",
             "n", "o", "p", "q", "r", "t", "u", "v", "w", "y", "z", "A", "B">>

\* Uuid::new_v4(): a token no other call of any turn carries
NewUuid(t, n, i) == <<"#", Letters[t], Letters[n + 1], Letters[i]>>

\* a key that leaves the session out
RequestIdWithoutSession(session, tool_call_id) == tool_call_id

\* format!("{}:{}", session_id, tool_call_id)
RequestId(session_id, tool_call_id) == session_id \o <<":">> \o tool_call_id

\* a gate that asks for every tool
needs_approval_always(tool_name) == TRUE

\* a gate that forgets Shell
needs_approval_without_shell(tool_name) == tool_name \in {"WriteFile", "StrReplaceFile"}

needs_approval(tool_name) == tool_name \in {"Shell", "WriteFile", "StrReplaceFile"}

\* a dispatcher that passes the arguments on without looking for the required
\* fields
execute_tool_unvalidated(name, args, collab_ok) ==
    IF name \notin CatalogNames
    THEN [ok |-> FALSE, summary |-> "Unknown tool"]
    ELSE [ok |-> collab_ok, summary |-> "collaborator"]

\* execute_tool: collab_ok is the collaborator's own verdict
execute_tool(name, args, collab_ok) ==
    IF name \notin CatalogNames
    THEN [ok |-> FALSE, summary |-> "Unknown tool"]
    ELSE IF args = "empty"
         THEN [ok |-> FALSE, summary |-> "Missing argument"]
         ELSE [ok |-> collab_ok, summary |-> "collaborator"]

RejectedOutput == [ok |-> FALSE, summary |-> "User rejected tool request."]

(* ------------------------------- state --------------------------------- *)

VARIABLES
    next_id,      \* AppState.next_id
    sessions,     \* AppState.sessions: stream ids whose SessionHandle is in the map
    approvals,    \* AppState.approvals: {[request_id, owner]}, owner = turn awaiting the Sender
    locks,        \* the Mutex around AppState.approvals and the one around
                  \* AppState.sessions: "free", "held" or "poisoned"
    pc,           \* position of each turn
    session_id,   \* stream_chat's session_id
    auto_approve, \* stream_chat's auto_approve
    step,         \* iterations of `for _ in 0..MAX_TOOL_STEPS` begun = model rounds issued
    cancel_rx,    \* the turn's cancellation Receiver: "empty", "sent", "taken"
    response,     \* TRUE when the outstanding model call has resolved
    messages,     \* ConversationState: the entries appended since the last request was built
    calls,        \* tool calls of the current round
    idx,          \* index of the call being processed
    rx,           \* the approval Receiver awaited by the turn
    events,       \* events emitted by the turn in the current round (terminal kinds: whole turn)
    handled,      \* per call of the current round processed so far: the approval it
                  \* got and whether execute_tool was invoked for it
    result,       \* stream_chat's return value: "none", "Ok", or the Err message
    cancel_point, \* where the turn was when its cancellation was signaled
    only_tool_rounds, \* every round issued so far was answered with tool calls
    manager,      \* SessionManager.sessions: per session id, cached or not, and its messages
    meta_files,   \* session ids whose <id>.json is in data_dir
    message_files,\* per session id, the lines of <id>_messages.jsonl (<< >>: none or empty)
    writable,     \* whether writes and removals in data_dir succeed
    wire,         \* wire.jsonl of the session load_messages is called for
    loaded        \* what load_messages returned

store == <<manager, meta_files, message_files, writable>>
transcript == <<wire, loaded>>

vars == <<next_id, sessions, approvals, locks, pc, session_id, auto_approve, step, cancel_rx,
          response, messages, calls, idx, rx, events, handled, result, cancel_point,
          only_tool_rounds, manager, meta_files, message_files, writable, wire, loaded>>

shared == <<next_id, sessions, approvals, locks>>
ghost == <<cancel_point>>

EmptyRx == [state |-> "empty", approved |-> FALSE, request_id |-> << >>]
ClosedRx == [state |-> "closed", approved |-> FALSE, request_id |-> << >>]
NoApproval == [state |-> "not_requested", approved |-> FALSE, request_id |-> << >>]

\* AppState::default while no turn has been started
NoTurns ==
    /\ next_id = 1
    /\ sessions = {}
    /\ approvals = {}
    /\ locks = [approvals |-> "free", sessions |-> "free"]
    /\ pc = [t \in Turns |-> "idle"]
    /\ session_id = [t \in Turns |-> << >>]
    /\ auto_approve = [t \in Turns |-> FALSE]
    /\ step = [t \in Turns |-> 0]
    /\ cancel_rx = [t \in Turns |-> "empty"]
    /\ response = [t \in Turns |-> FALSE]
    /\ messages = [t \in Turns |-> << >>]
    /\ calls = [t \in Turns |-> << >>]
    /\ idx = [t \in Turns |-> 0]
    /\ rx = [t \in Turns |-> EmptyRx]
    /\ events = [t \in Turns |-> << >>]
    /\ handled = [t \in Turns |-> << >>]
    /\ result = [t \in Turns |-> "none"]
    /\ cancel_point = [t \in Turns |-> "none"]
    /\ only_tool_rounds = [t \in Turns |-> TRUE]

Uncached == [cached |-> FALSE, messages |-> << >>]

\* SessionManager::new() over an empty data_dir
NoSessions ==
    /\ manager = [s \in SessionIds |-> Uncached]
    /\ meta_files = {}
    /\ message_files = [s \in SessionIds |-> << >>]
    /\ writable = TRUE

NotLoaded == [status |-> "none", messages |-> << >>]

NoWire ==
    /\ wire = [state |-> "absent", lines |-> << >>]
    /\ loaded = NotLoaded

Init == NoTurns /\ NoSessions /\ NoWire

(* ------------------------------ events --------------------------------- *)

EvError(s, m) == [event |-> "error", session_id |-> s, message |-> m]
EvCancelled(s) == [event |-> "cancelled", session_id |-> s]
EvThinking(s, c) == [event |-> "thinking", session_id |-> s, content |-> c]
EvChunk(s, c) == [event |-> "chunk", session_id |-> s, content |-> c]
EvDone(s) == [event |-> "done", session_id |-> s, usage |-> "usage"]
EvToolApproval(s, r, n) ==
    [event |-> "tool_approval", session_id |-> s, request_id |-> r, name |-> n]
EvToolResult(s, id, n, out) ==
    [event |-> "tool_result", session_id |-> s, tool_call_id |-> id, name |-> n,
     ok |-> out.ok, summary |-> out.summary]

\* emit_tool_status with state "start": ok and summary are None
emit_tool_status_start(s, id, n) ==
    [event |-> "tool_status", session_id |-> s, tool_call_id |-> id, state |-> "start",
     name |-> n]

\* emit_tool_status with state "end"
emit_tool_status_end(s, id, n, out) ==
    [event |-> "tool_status", session_id |-> s, tool_call_id |-> id, state |-> "end",
     name |-> n, ok |-> out.ok, summary |-> out.summary]

TerminalKinds == {"chunk", "done", "cancelled", "error"}

IsTerminalEvent(e) == e.event \in TerminalKinds

(* ----------------------- the model's responses ------------------------- *)

\* the calls the model may put in a response
ModelCalls ==
    { [id |-> <<"0">>, name |-> "Shell", arguments |-> "full"],
      [id |-> <<"x", ":", "0">>, name |-> "Shell", arguments |-> "empty"],
      [id |-> << >>, name |-> "ReadFile", arguments |-> "full"],
      [id |-> <<"0">>, name |-> "Bogus", arguments |-> "full"] }

\* the calls of ModelCalls that differ in more than their id
DistinctCalls == { c \in ModelCalls : c.arguments = "full" }

RECURSIVE SeqsUpTo(_, _)
SeqsUpTo(S, n) ==
    IF n = 0 THEN { << >> }
    ELSE LET shorter == SeqsUpTo(S, n - 1)
         IN  shorter \cup { Append(q, x) : q \in shorter, x \in S }

CallLists(cs, width) == SeqsUpTo(cs, width) \ { << >> }

\* outcome of one model round: a failure of the call, or a message
FailedRounds ==
    { [kind |-> k, reasoning |-> "", content |-> "", tool_calls |-> << >>] :
        k \in {"Request failed", "API error", "Failed to parse response",
               "No message in response"} }

FinalRounds ==
    { [kind |-> "message", reasoning |-> r, content |-> "text", tool_calls |-> << >>] :
        r \in {"", "why"} }

EmptyRounds ==
    { [kind |-> "message", reasoning |-> "", content |-> "", tool_calls |-> << >>] }

ToolRounds(lists) ==
    { [kind |-> "message", reasoning |-> "", content |-> "text", tool_calls |-> cs] :
        cs \in lists }

\* the responses the model may give in the n-th round of a turn, when at most
\* cap rounds are answered with a response that keeps the loop going and the
\* tool calls of a response are one of lists
Responses(n, cap, lists) ==
    FailedRounds \cup FinalRounds
        \cup (IF n <= cap THEN EmptyRounds \cup ToolRounds(lists) ELSE {})

(* -------------------------- SessionManager ----------------------------- *)

\* A store value st holds the cache and the files; w tells whether file
\* writes and removals succeed. A Message is its role and content.

Store == [manager |-> manager, meta_files |-> meta_files, message_files |-> message_files]

Commit(st) ==
    /\ manager' = st.manager
    /\ meta_files' = st.meta_files
    /\ message_files' = st.message_files

save_session(st, s, w) ==
    IF w THEN [st EXCEPT !.meta_files = @ \cup {s}] ELSE st

get_or_create_session(st, s, w) ==
    IF st.manager[s].cached
    THEN st
    ELSE save_session([st EXCEPT !.manager[s] = [cached |-> TRUE, messages |-> << >>]], s, w)

save_message(st, s, m, w) ==
    IF w THEN [st EXCEPT !.message_files[s] = Append(@, m)] ELSE st

add_message(st, s, m, w) ==
    IF st.manager[s].cached
    THEN save_session([st EXCEPT !.manager[s].messages = Append(@, m)], s, w)
    ELSE st

\* every session with a metadata file is rebuilt from its messages file and
\* put in the cache, replacing the cached one
load_all_sessions(st) ==
    [st EXCEPT !.manager =
        [s \in SessionIds |->
            IF s \in st.meta_files
            THEN [cached |-> TRUE, messages |-> st.message_files[s]]
            ELSE st.manager[s]]]

delete_session(st, s, w) ==
    [manager |-> [st.manager EXCEPT ![s] = Uncached],
     meta_files |-> IF w THEN st.meta_files \ {s} ELSE st.meta_files,
     message_files |-> IF w THEN [st.message_files EXCEPT ![s] = << >>]
                       ELSE st.message_files]

\* the user message chat_stream stores for turn t
UserMessage(t) == [role |-> "user", content |-> Letters[t]]

(* --------------------------- load_messages ----------------------------- *)

\* A text is the sequence of its characters. A line of wire.jsonl is blank,
\* not JSON ("unparsable"), or a record with its message.type ("none" when it
\* has none), its payload.type, its payload.text when that is a string, and
\* its payload.user_input as a list of items with their text when they have one.

Line(kind, type, part_type, has_text, text, user_input) ==
    [kind |-> kind, type |-> type, part_type |-> part_type, has_text |-> has_text,
     text |-> text, user_input |-> user_input]

Item(has_text, text) == [has_text |-> has_text, text |-> text]

TurnBegin(user_input) == Line("record", "TurnBegin", "none", FALSE, << >>, user_input)
ContentPart(part_type, text) == Line("record", "ContentPart", part_type, TRUE, text, << >>)
Record(type) == Line("record", type, "none", FALSE, << >>, << >>)
BlankLine == Line("blank", "none", "none", FALSE, << >>, << >>)
UnparsableLine == Line("unparsable", "none", "none", FALSE, << >>, << >>)

Message(role, content) == [role |-> role, content |-> content]

\* arr.iter().find_map(|item| item.get("text").and_then(|t| t.as_str())).unwrap_or("")
RECURSIVE FirstText(_)
FirstText(items) ==
    IF items = << >> THEN << >>
    ELSE IF Head(items).has_text THEN Head(items).text
    ELSE FirstText(Tail(items))

\* a buffer that keeps only the latest part
push_str_overwriting(current_content, text) == text

\* current_content.push_str(text)
push_str(current_content, text) == current_content \o text

\* an arm that forgets StepEnd
IsTurnEnd(type) == type = "TurnEnd"

\* a catch-all arm that flushes like StepEnd
IsStepOrTurnEndOrOther(type) == type \notin {"TurnBegin", "ContentPart", "ToolCall"}

\* the arm Some("StepEnd") | Some("TurnEnd")
IsStepOrTurnEnd(type) == type \in {"StepEnd", "TurnEnd"}

\* state of the loop of load_messages before any line
NoLines == [messages |-> << >>, current_content |-> << >>, current_role |-> "none"]

\* an iteration that buffers text parts whatever the mode is
load_line_in_any_mode(st, line) ==
    IF line.kind # "record" THEN st
    ELSE IF line.type = "TurnBegin"
    THEN LET flushed == IF st.current_role # "none" /\ st.current_content # << >>
                        THEN Append(st.messages,
                                    Message(st.current_role, st.current_content))
                        ELSE st.messages
             user_text == FirstText(line.user_input)
         IN  [messages |-> IF user_text # << >>
                           THEN Append(flushed, Message("user", user_text))
                           ELSE flushed,
              current_content |-> << >>,
              current_role |-> "assistant"]
    ELSE IF line.type = "ContentPart"
    THEN IF line.part_type = "text" /\ line.has_text
         THEN [st EXCEPT !.current_content = push_str(@, line.text)]
         ELSE st
    ELSE IF IsStepOrTurnEnd(line.type)
    THEN IF st.current_role = "assistant" /\ st.current_content # << >>
         THEN [messages |-> Append(st.messages, Message("assistant", st.current_content)),
               current_content |-> << >>,
               current_role |-> st.current_role]
         ELSE st
    ELSE st

\* one iteration of `for line in content.lines()`
load_line(st, line) ==
    IF line.kind # "record" THEN st
    ELSE IF line.type = "TurnBegin"
    THEN LET flushed == IF st.current_role # "none" /\ st.current_content # << >>
                        THEN Append(st.messages,
                                    Message(st.current_role, st.current_content))
                        ELSE st.messages
             user_text == FirstText(line.user_input)
         IN  [messages |-> IF user_text # << >>
                           THEN Append(flushed, Message("user", user_text))
                           ELSE flushed,
              current_content |-> << >>,
              current_role |-> "assistant"]
    ELSE IF line.type = "ContentPart"
    THEN IF st.current_role = "assistant" /\ line.part_type = "text" /\ line.has_text
         THEN [st EXCEPT !.current_content = push_str(@, line.text)]
         ELSE st
    ELSE IF IsStepOrTurnEnd(line.type)
    THEN IF st.current_role = "assistant" /\ st.current_content # << >>
         THEN [messages |-> Append(st.messages, Message("assistant", st.current_content)),
               current_content |-> << >>,
               current_role |-> st.current_role]
         ELSE st
    ELSE st

\* the state of the loop after the first n of lines
RECURSIVE after_lines(_, _)
after_lines(lines, n) ==
    IF n = 0 THEN NoLines ELSE load_line(after_lines(lines, n - 1), lines[n])

\* a load_messages without the flush at the end of the input
load_messages_without_last_flush(lines) == after_lines(lines, Len(lines)).messages

\* the messages load_messages returns for the lines of a readable file
load_messages(lines) ==
    LET st == after_lines(lines, Len(lines))
    IN  IF st.current_role = "assistant" /\ st.current_content # << >>
        THEN Append(st.messages, Message("assistant", st.current_content))
        ELSE st.messages

\* session_messages' last resort: load_messages over the session's wire file
\* (absent, not readable as text, or a text of lines)
session_load_messages ==
    /\ loaded.status = "none"
    /\ loaded' = IF wire.state = "absent" THEN [status |-> "Ok", messages |-> << >>]
                 ELSE IF wire.state = "invalid"
                 THEN [status |-> "Failed to read wire file", messages |-> << >>]
                 ELSE [status |-> "Ok", messages |-> load_messages(wire.lines)]
    /\ UNCHANGED wire

(* --------------------------- stream_chat ------------------------------- *)

\* the id as the model sent it, absent or empty ids included
ToolCallIdAsSent(t) == calls[t][idx[t]].id

\* the id the current call is processed under: the model's, or a fresh Uuid
ToolCallId(t) ==
    IF calls[t][idx[t]].id = << >> THEN NewUuid(t, step[t], idx[t]) ELSE calls[t][idx[t]].id

Emit(t, es) == events' = [events EXCEPT ![t] = @ \o es]

\* a guard that is still held when the step that took it is over
GuardKept(name) == locks' = [locks EXCEPT ![name] = "held"]

\* the MutexGuard goes out of scope before the step that took it is over
GuardDropped(name) == UNCHANGED locks

\* Mutex::lock: Ok with the guard when the lock is free, Err when it is
\* poisoned; a caller waits while it is held
lock_ok(name) == locks[name] = "free"
lock_err(name) == locks[name] = "poisoned"

\* a return that loses the failure
ReturnOk(t, r) ==
    /\ pc' = [pc EXCEPT ![t] = "end"]
    /\ result' = [result EXCEPT ![t] = "Ok"]

\* `return Ok(())` / `return Err(m)`
Return(t, r) ==
    /\ pc' = [pc EXCEPT ![t] = "end"]
    /\ result' = [result EXCEPT ![t] = r]

\* a cancelled exit that reports the cancellation as a failure
ExitCancelledAsError(t) ==
    /\ cancel_rx' = [cancel_rx EXCEPT ![t] = "taken"]
    /\ events' = [events EXCEPT ![t] = @ \o << [event |-> "cancelled",
                                                 session_id |-> session_id[t]] >>]
    /\ pc' = [pc EXCEPT ![t] = "end"]
    /\ result' = [result EXCEPT ![t] = "Cancelled"]

\* a cancelled exit that announces the cancellation twice
ExitCancelledTwice(t) ==
    /\ cancel_rx' = [cancel_rx EXCEPT ![t] = "taken"]
    /\ Emit(t, << EvCancelled(session_id[t]), EvCancelled(session_id[t]) >>)
    /\ Return(t, "Ok")

\* the cancelled exit shared by the four cancellation checks
ExitCancelled(t) ==
    /\ cancel_rx' = [cancel_rx EXCEPT ![t] = "taken"]
    /\ Emit(t, << EvCancelled(session_id[t]) >>)
    /\ Return(t, "Ok")

\* chat_stream: store the user message, register the turn's cancel handle and
\* call stream_chat
chat_stream(t, s, auto) ==
    /\ t = next_id
    /\ pc[t] = "idle"
    /\ lock_ok("sessions")
    /\ GuardDropped("sessions")
    /\ Commit(add_message(
                save_message(get_or_create_session(Store, s, writable),
                             s, UserMessage(t), writable),
                s, UserMessage(t), writable))
    /\ UNCHANGED <<writable, transcript>>
    /\ next_id' = next_id + 1
    /\ sessions' = sessions \cup {t}
    /\ pc' = [pc EXCEPT ![t] = "auth"]
    /\ session_id' = [session_id EXCEPT ![t] = s]
    /\ auto_approve' = [auto_approve EXCEPT ![t] = auto]
    /\ UNCHANGED <<approvals, step, cancel_rx, response, messages, calls, idx, rx, events,
                   handled, result, ghost, only_tool_rounds>>

\* a missing credential that is reported but does not end the turn
AuthenticateAndGoOn(t, cred) ==
    /\ pc[t] = "auth"
    /\ pc' = [pc EXCEPT ![t] = "top"]
    /\ messages' = [messages EXCEPT ![t] = << [role |-> "system"], [role |-> "user"] >>]
    /\ IF cred = "ok"
       THEN UNCHANGED events
       ELSE Emit(t, << EvError(session_id[t], cred) >>)
    /\ UNCHANGED <<shared, session_id, auto_approve, step, cancel_rx, response, calls, idx,
                   rx, handled, result, ghost, only_tool_rounds>>

\* stream_chat up to the loop: the credential, the preamble and the user message
Authenticate(t, cred) ==
    /\ pc[t] = "auth"
    /\ IF cred = "ok"
       THEN /\ pc' = [pc EXCEPT ![t] = "top"]
            /\ messages' = [messages EXCEPT ![t] = << [role |-> "system"], [role |-> "user"] >>]
            /\ UNCHANGED <<events, result>>
       ELSE /\ Emit(t, << EvError(session_id[t], cred) >>)
            /\ Return(t, cred)
            /\ UNCHANGED messages
    /\ UNCHANGED <<shared, session_id, auto_approve, step, cancel_rx, response, calls, idx,
                   rx, handled, ghost, only_tool_rounds>>

Credentials == {"ok", "API key not configured", "Not logged in"}

\* a loop that sends the request without looking at the cancellation Receiver
LoopTopWithoutCancelCheck(t) ==
    /\ pc[t] = "top"
    /\ IF step[t] >= MAX_TOOL_STEPS
       THEN /\ Return(t, "Exceeded maximum tool steps")
            /\ UNCHANGED <<step, cancel_rx, response, messages, events, handled, calls, idx>>
       ELSE /\ step' = [step EXCEPT ![t] = @ + 1]
            /\ pc' = [pc EXCEPT ![t] = "model"]
            /\ response' = [response EXCEPT ![t] = FALSE]
            /\ messages' = [messages EXCEPT ![t] = << >>]
            /\ events' = [events EXCEPT ![t] = SelectSeq(@, IsTerminalEvent)]
            /\ handled' = [handled EXCEPT ![t] = << >>]
            /\ calls' = [calls EXCEPT ![t] = << >>]
            /\ idx' = [idx EXCEPT ![t] = 0]
            /\ UNCHANGED <<cancel_rx, result>>
    /\ UNCHANGED <<shared, session_id, auto_approve, rx, ghost, only_tool_rounds>>

\* top of the for loop: budget, cancellation check, then the request is sent
LoopTop(t) ==
    /\ pc[t] = "top"
    /\ IF step[t] >= MAX_TOOL_STEPS
       THEN /\ Return(t, "Exceeded maximum tool steps")
            /\ UNCHANGED <<step, cancel_rx, response, messages, events, handled, calls, idx>>
       ELSE IF cancel_rx[t] = "sent"
       THEN /\ ExitCancelled(t)
            /\ UNCHANGED <<step, response, messages, handled, calls, idx>>
       ELSE /\ step' = [step EXCEPT ![t] = @ + 1]
            /\ pc' = [pc EXCEPT ![t] = "model"]
            /\ response' = [response EXCEPT ![t] = FALSE]
            /\ messages' = [messages EXCEPT ![t] = << >>]
            /\ events' = [events EXCEPT ![t] = SelectSeq(@, IsTerminalEvent)]
            /\ handled' = [handled EXCEPT ![t] = << >>]
            /\ calls' = [calls EXCEPT ![t] = << >>]
            /\ idx' = [idx EXCEPT ![t] = 0]
            /\ UNCHANGED <<cancel_rx, result>>
    /\ UNCHANGED <<shared, session_id, auto_approve, rx, ghost, only_tool_rounds>>

\* the model endpoint answers the outstanding request
ModelResolves(t) ==
    /\ pc[t] = "model"
    /\ ~response[t]
    /\ response' = [response EXCEPT ![t] = TRUE]
    /\ UNCHANGED <<shared, pc, session_id, auto_approve, step, cancel_rx, messages, calls,
                   idx, rx, events, handled, result, ghost, only_tool_rounds>>

\* a final answer whose done event precedes its chunk
HandleResponseDoneFirst(t, r) ==
    LET s == session_id[t]
        thinking == IF r.reasoning # "" THEN << EvThinking(s, r.reasoning) >> ELSE << >>
    IN
    /\ only_tool_rounds' = [only_tool_rounds EXCEPT
                              ![t] = @ /\ r.kind = "message" /\ r.tool_calls # << >>]
    /\ IF r.kind # "message"
       THEN /\ Return(t, r.kind)
            /\ UNCHANGED <<messages, calls, idx, events>>
       ELSE IF r.tool_calls # << >>
       THEN /\ messages' = [messages EXCEPT ![t] =
                              Append(@, [role |-> "assistant", content |-> r.content,
                                         tool_calls |-> r.tool_calls])]
            /\ calls' = [calls EXCEPT ![t] = r.tool_calls]
            /\ idx' = [idx EXCEPT ![t] = 1]
            /\ pc' = [pc EXCEPT ![t] = "call"]
            /\ Emit(t, thinking)
            /\ UNCHANGED result
       ELSE IF r.content # ""
       THEN /\ Emit(t, thinking \o << EvDone(s), EvChunk(s, r.content) >>)
            /\ Return(t, "Ok")
            /\ UNCHANGED <<messages, calls, idx>>
       ELSE /\ pc' = [pc EXCEPT ![t] = "top"]
            /\ Emit(t, thinking)
            /\ UNCHANGED <<messages, calls, idx, result>>

\* a response with tool calls whose content is streamed as well
HandleResponseStreamingContent(t, r) ==
    LET s == session_id[t]
        thinking == IF r.reasoning # "" THEN << EvThinking(s, r.reasoning) >> ELSE << >>
    IN
    /\ only_tool_rounds' = [only_tool_rounds EXCEPT
                              ![t] = @ /\ r.kind = "message" /\ r.tool_calls # << >>]
    /\ IF r.kind # "message"
       THEN /\ Return(t, r.kind)
            /\ UNCHANGED <<messages, calls, idx, events>>
       ELSE IF r.tool_calls # << >>
       THEN /\ messages' = [messages EXCEPT ![t] =
                              Append(@, [role |-> "assistant", content |-> r.content,
                                         tool_calls |-> r.tool_calls])]
            /\ calls' = [calls EXCEPT ![t] = r.tool_calls]
            /\ idx' = [idx EXCEPT ![t] = 1]
            /\ pc' = [pc EXCEPT ![t] = "call"]
            /\ Emit(t, thinking \o << EvChunk(s, r.content) >>)
            /\ UNCHANGED result
       ELSE IF r.content # ""
       THEN /\ Emit(t, thinking \o << EvChunk(s, r.content), EvDone(s) >>)
            /\ Return(t, "Ok")
            /\ UNCHANGED <<messages, calls, idx>>
       ELSE /\ pc' = [pc EXCEPT ![t] = "top"]
            /\ Emit(t, thinking)
            /\ UNCHANGED <<messages, calls, idx, result>>

\* a failed round that is tried again
HandleResponseRetrying(t, r) ==
    LET s == session_id[t]
        thinking == IF r.reasoning # "" THEN << EvThinking(s, r.reasoning) >> ELSE << >>
    IN
    /\ only_tool_rounds' = [only_tool_rounds EXCEPT
                              ![t] = @ /\ r.kind = "message" /\ r.tool_calls # << >>]
    /\ IF r.kind # "message"
       THEN /\ pc' = [pc EXCEPT ![t] = "top"]
            /\ UNCHANGED <<messages, calls, idx, events, result>>
       ELSE IF r.tool_calls # << >>
       THEN /\ messages' = [messages EXCEPT ![t] =
                              Append(@, [role |-> "assistant", content |-> r.content,
                                         tool_calls |-> r.tool_calls])]
            /\ calls' = [calls EXCEPT ![t] = r.tool_calls]
            /\ idx' = [idx EXCEPT ![t] = 1]
            /\ pc' = [pc EXCEPT ![t] = "call"]
            /\ Emit(t, thinking)
            /\ UNCHANGED result
       ELSE IF r.content # ""
       THEN /\ Emit(t, thinking \o << EvChunk(s, r.content), EvDone(s) >>)
            /\ Return(t, "Ok")
            /\ UNCHANGED <<messages, calls, idx>>
       ELSE /\ pc' = [pc EXCEPT ![t] = "top"]
            /\ Emit(t, thinking)
            /\ UNCHANGED <<messages, calls, idx, result>>

\* lines 230-481: what stream_chat does with the resolved model call r
HandleResponse(t, r) ==
    LET s == session_id[t]
        thinking == IF r.reasoning # "" THEN << EvThinking(s, r.reasoning) >> ELSE << >>
    IN
    /\ only_tool_rounds' = [only_tool_rounds EXCEPT
                              ![t] = @ /\ r.kind = "message" /\ r.tool_calls # << >>]
    /\ IF r.kind # "message"
       THEN /\ Return(t, r.kind)
            /\ UNCHANGED <<messages, calls, idx, events>>
       ELSE IF r.tool_calls # << >>
       THEN /\ messages' = [messages EXCEPT ![t] =
                              Append(@, [role |-> "assistant", content |-> r.content,
                                         tool_calls |-> r.tool_calls])]
            /\ calls' = [calls EXCEPT ![t] = r.tool_calls]
            /\ idx' = [idx EXCEPT ![t] = 1]
            /\ pc' = [pc EXCEPT ![t] = "call"]
            /\ Emit(t, thinking)
            /\ UNCHANGED result
       ELSE IF r.content # ""
       THEN /\ Emit(t, thinking \o << EvChunk(s, r.content), EvDone(s) >>)
            /\ Return(t, "Ok")
            /\ UNCHANGED <<messages, calls, idx>>
       ELSE /\ pc' = [pc EXCEPT ![t] = "top"]
            /\ Emit(t, thinking)
            /\ UNCHANGED <<messages, calls, idx, result>>

\* tokio::select! over the cancellation Receiver and the model call: a branch
\* that is ready may be taken; when both are ready either may be
AwaitModel(t, cap, lists) ==
    /\ pc[t] = "model"
    /\ \/ /\ cancel_rx[t] = "sent"
          /\ ExitCancelled(t)
          /\ UNCHANGED <<messages, calls, idx, only_tool_rounds>>
       \/ /\ response[t]
          /\ \E r \in Responses(step[t], cap, lists) : HandleResponse(t, r)
          /\ UNCHANGED cancel_rx
    /\ UNCHANGED <<shared, session_id, auto_approve, step, response, rx, handled, ghost>>

\* a replaced Sender that stays open
DropSendersLeavingOpen(owners, t) ==
    [u \in Turns |-> IF u = t THEN EmptyRx ELSE rx[u]]

\* the Sender a map operation drops closes its Receiver: the awaiting turn
\* sees Err, which unwrap_or(false) turns into a rejection
DropSenders(owners, t) ==
    [u \in Turns |-> IF u = t THEN EmptyRx
                     ELSE IF u \in owners /\ rx[u].state = "empty" THEN ClosedRx
                     ELSE rx[u]]

Owners(k) == { e.owner : e \in { a \in approvals : a.request_id = k } }

\* lines 359-382: tool_status(start), then execute_tool is invoked
Dispatch(t, grant) ==
    LET c == calls[t][idx[t]]
    IN
    /\ Emit(t, << emit_tool_status_start(session_id[t], ToolCallId(t), c.name) >>)
    /\ handled' = [handled EXCEPT ![t] =
                     Append(@, [tool_call_id |-> ToolCallId(t), name |-> c.name,
                                approval |-> grant, executed |-> TRUE])]
    /\ pc' = [pc EXCEPT ![t] = "exec"]

\* a tool entry that carries the id the model sent instead of the id the call
\* is processed under
ConcludeWithModelId(t, out, status) ==
    LET c == calls[t][idx[t]]
        id == ToolCallId(t)
    IN
    /\ Emit(t, status \o << EvToolResult(session_id[t], id, c.name, out) >>)
    /\ messages' = [messages EXCEPT ![t] =
                      Append(@, [role |-> "tool", tool_call_id |-> c.id, ok |-> out.ok,
                                 summary |-> out.summary])]
    /\ IF idx[t] < Len(calls[t])
       THEN /\ idx' = [idx EXCEPT ![t] = @ + 1]
            /\ pc' = [pc EXCEPT ![t] = "call"]
       ELSE /\ pc' = [pc EXCEPT ![t] = "top"]
            /\ UNCHANGED idx

\* lines 384-444: the call's closing events and its tool entry, then the next
\* call of the round or the next iteration of the loop
Conclude(t, out, status) ==
    LET c == calls[t][idx[t]]
        id == ToolCallId(t)
    IN
    /\ Emit(t, status \o << EvToolResult(session_id[t], id, c.name, out) >>)
    /\ messages' = [messages EXCEPT ![t] =
                      Append(@, [role |-> "tool", tool_call_id |-> id, ok |-> out.ok,
                                 summary |-> out.summary])]
    /\ IF idx[t] < Len(calls[t])
       THEN /\ idx' = [idx EXCEPT ![t] = @ + 1]
            /\ pc' = [pc EXCEPT ![t] = "call"]
       ELSE /\ pc' = [pc EXCEPT ![t] = "top"]
            /\ UNCHANGED idx

\* lines 341-357: request_approval returned Err without a cancellation having
\* been received; the cancelled event is emitted and stream_chat returns Ok
RequestFailed(t) ==
    /\ Emit(t, << EvCancelled(session_id[t]) >>)
    /\ Return(t, "Ok")

\* the lock around AppState.approvals is poisoned by a panic of a thread
\* that held it
PoisonApprovals ==
    /\ lock_ok("approvals")
    /\ locks' = [locks EXCEPT !["approvals"] = "poisoned"]
    /\ UNCHANGED <<next_id, sessions, approvals, pc, session_id, auto_approve, step,
                   cancel_rx, response, messages, calls, idx, rx, events, handled, result,
                   cancel_point, only_tool_rounds, store, transcript>>

\* lines 293-357 and 607-629: the per-call cancellation check, then either the
\* approval request is registered and announced, or the call is dispatched
BeginCall(t) ==
    LET c == calls[t][idx[t]]
        request_id == RequestId(session_id[t], ToolCallId(t))
    IN
    /\ pc[t] = "call"
    /\ IF cancel_rx[t] = "sent"
       THEN /\ ExitCancelled(t)
            /\ UNCHANGED <<approvals, locks, rx, handled>>
       ELSE IF needs_approval(c.name) /\ ~auto_approve[t]
       THEN \/ /\ lock_ok("approvals")
               /\ approvals' = { a \in approvals : a.request_id # request_id }
                                 \cup { [request_id |-> request_id, owner |-> t] }
               /\ GuardDropped("approvals")
               /\ rx' = DropSenders(Owners(request_id), t)
               /\ Emit(t, << EvToolApproval(session_id[t], request_id, c.name) >>)
               /\ pc' = [pc EXCEPT ![t] = "approval"]
               /\ UNCHANGED <<cancel_rx, handled, result>>
            \/ /\ lock_err("approvals")
               /\ RequestFailed(t)
               /\ UNCHANGED <<approvals, locks, rx, cancel_rx, handled>>
       ELSE /\ Dispatch(t, NoApproval)
            /\ UNCHANGED <<approvals, locks, rx, cancel_rx, result>>
    /\ UNCHANGED <<next_id, sessions, session_id, auto_approve, step, response, messages,
                   calls, idx, ghost, only_tool_rounds>>

\* a mistaken unwrap_or(true)
ApprovedOrTrue(r) == r.state = "closed" \/ r.approved

\* result.unwrap_or(false) on the awaited decision
Approved(r) == r.state = "sent" /\ r.approved

\* lines 631-645 and 341-413: tokio::select! over the cancellation Receiver and
\* the decision Receiver; a branch that is ready may be taken
AwaitApproval(t) ==
    LET c == calls[t][idx[t]]
        request_id == RequestId(session_id[t], ToolCallId(t))
        approved == Approved(rx[t])
    IN
    /\ pc[t] = "approval"
    /\ \/ /\ cancel_rx[t] = "sent"
          /\ \/ /\ lock_ok("approvals")
                /\ approvals' = { a \in approvals : a.request_id # request_id }
                /\ GuardDropped("approvals")
                /\ rx' = [u \in Turns |-> IF u # t /\ u \in Owners(request_id)
                                             /\ rx[u].state = "empty"
                                          THEN ClosedRx ELSE rx[u]]
             \/ /\ lock_err("approvals")
                /\ UNCHANGED <<approvals, locks, rx>>
          /\ ExitCancelled(t)
          /\ UNCHANGED <<messages, idx, handled>>
       \/ /\ rx[t].state # "empty"
          /\ IF approved
             THEN /\ Dispatch(t, rx[t])
                  /\ UNCHANGED <<messages, idx>>
             ELSE /\ Conclude(t, RejectedOutput,
                              << emit_tool_status_end(session_id[t], ToolCallId(t), c.name,
                                                      RejectedOutput) >>)
                  /\ handled' = [handled EXCEPT ![t] =
                                   Append(@, [tool_call_id |-> ToolCallId(t),
                                              name |-> c.name, approval |-> rx[t],
                                              executed |-> FALSE])]
          /\ UNCHANGED <<approvals, locks, rx, cancel_rx, result>>
    /\ UNCHANGED <<next_id, sessions, session_id, auto_approve, step, response, calls,
                   ghost, only_tool_rounds>>

\* execute_tool returns: tool_status(end), tool_result, the tool entry
ToolReturns(t, collab_ok) ==
    LET c == calls[t][idx[t]]
        out == execute_tool(c.name, c.arguments, collab_ok)
    IN
    /\ pc[t] = "exec"
    /\ Conclude(t, out, << emit_tool_status_end(session_id[t], ToolCallId(t), c.name, out) >>)
    /\ UNCHANGED <<shared, session_id, auto_approve, step, cancel_rx, response, calls, rx,
                   handled, result, ghost, only_tool_rounds>>

(* ------------------------ the observer's commands ---------------------- *)

\* request ids the observer has seen in tool_approval events or that are pending
KnownRequestIds ==
    { a.request_id : a \in approvals }
    \cup UNION { { events[t][i].request_id :
                     i \in { j \in 1..Len(events[t]) : events[t][j].event = "tool_approval" } } :
                 t \in Turns }

\* request ids the observer may submit: the known ones and one that was never
\* registered
SubmittedRequestIds == KnownRequestIds \cup { <<"?">> }

\* the value tool_approval_respond returns for request_id
respond_result(request_id) ==
    IF lock_err("approvals") THEN "Approval store poisoned"
    ELSE IF Owners(request_id) # {} THEN "Ok" ELSE "Approval request not found"

\* a lookup with get in place of remove: the entry stays in the map
tool_approval_respond_with_get(request_id, approved) ==
    /\ lock_ok("approvals") \/ lock_err("approvals")
    /\ GuardDropped("approvals")
    /\ IF respond_result(request_id) = "Ok"
       THEN /\ rx' = [u \in Turns |->
                        IF u \in Owners(request_id) /\ rx[u].state = "empty"
                        THEN [state |-> "sent", approved |-> approved,
                              request_id |-> request_id]
                        ELSE rx[u]]
            /\ UNCHANGED approvals
       ELSE UNCHANGED <<approvals, rx>>
    /\ UNCHANGED <<next_id, sessions, pc, session_id, auto_approve, step, cancel_rx, response,
                   messages, calls, idx, events, handled, result, cancel_point,
                   only_tool_rounds, store, transcript>>

\* tool_approval_respond: the Sender under request_id is removed and the
\* decision sent on it; nothing changes when there is none
tool_approval_respond(request_id, approved) ==
    /\ lock_ok("approvals") \/ lock_err("approvals")
    /\ GuardDropped("approvals")
    /\ IF respond_result(request_id) = "Ok"
       THEN /\ approvals' = { a \in approvals : a.request_id # request_id }
            /\ rx' = [u \in Turns |->
                        IF u \in Owners(request_id) /\ rx[u].state = "empty"
                        THEN [state |-> "sent", approved |-> approved,
                              request_id |-> request_id]
                        ELSE rx[u]]
       ELSE UNCHANGED <<approvals, rx>>
    /\ UNCHANGED <<next_id, sessions, pc, session_id, auto_approve, step, cancel_rx, response,
                   messages, calls, idx, events, handled, result, cancel_point,
                   only_tool_rounds, store, transcript>>

\* where a turn is when a cancellation signal reaches it
CancelPoint(t) ==
    IF pc[t] = "auth" \/ (pc[t] = "top" /\ step[t] = 0) THEN "before first round" ELSE pc[t]

\* the value cancel_chat returns
cancel_chat_result == IF lock_err("sessions") THEN "Session store poisoned" ELSE "Ok"

\* a cancel_chat that keeps the handles and flips each live turn's signal
cancel_chat_toggling(target) ==
    /\ target \in sessions
    /\ lock_ok("sessions")
    /\ GuardDropped("sessions")
    /\ UNCHANGED sessions
    /\ cancel_rx' = [t \in Turns |->
                       IF t \in sessions /\ pc[t] # "end" /\ cancel_rx[t] = "empty"
                       THEN "sent"
                       ELSE IF t \in sessions /\ pc[t] # "end" /\ cancel_rx[t] = "sent"
                       THEN "empty" ELSE cancel_rx[t]]
    /\ cancel_point' = [t \in Turns |->
                          IF t \in sessions /\ pc[t] # "end" /\ cancel_rx[t] = "empty"
                          THEN CancelPoint(t) ELSE cancel_point[t]]
    /\ UNCHANGED <<next_id, approvals, pc, session_id, auto_approve, step, response, messages,
                   calls, idx, rx, events, handled, result, only_tool_rounds, store,
                   transcript>>

\* cancel_chat drains AppState.sessions and signals every handle; target is
\* the turn the observer invokes it for (the command itself takes no argument)
cancel_chat(target) ==
    /\ target \in sessions
    /\ lock_ok("sessions")
    /\ GuardDropped("sessions")
    /\ sessions' = {}
    /\ cancel_rx' = [t \in Turns |->
                       IF t \in sessions /\ pc[t] # "end" /\ cancel_rx[t] = "empty"
                       THEN "sent" ELSE cancel_rx[t]]
    /\ cancel_point' = [t \in Turns |->
                          IF t \in sessions /\ pc[t] # "end" /\ cancel_rx[t] = "empty"
                          THEN CancelPoint(t) ELSE cancel_point[t]]
    /\ UNCHANGED <<next_id, approvals, pc, session_id, auto_approve, step, response, messages,
                   calls, idx, rx, events, handled, result, only_tool_rounds, store,
                   transcript>>

turn_vars == <<next_id, sessions, approvals, locks, pc, session_id, auto_approve, step, cancel_rx,
               response, messages, calls, idx, rx, events, handled, result, cancel_point,
               only_tool_rounds>>

\* session_save_message: the message goes to the file and, when the session
\* is cached, to the cache; both failures are ignored
session_save_message(s, role, content) ==
    LET m == [role |-> role, content |-> content]
    IN
    /\ Len(message_files[s]) < MaxMessages
    /\ Len(manager[s].messages) < MaxMessages
    /\ Commit(add_message(save_message(Store, s, m, writable), s, m, writable))
    /\ UNCHANGED <<turn_vars, writable, transcript>>

\* session_list: load_all_sessions refreshes the cache from the files
session_list ==
    /\ Commit(load_all_sessions(Store))
    /\ UNCHANGED <<turn_vars, writable, transcript>>

\* session_messages: the cached list, else the cache is refreshed from the files
session_messages(s) ==
    /\ IF manager[s].cached
       THEN UNCHANGED <<manager, meta_files, message_files>>
       ELSE Commit(load_all_sessions(Store))
    /\ UNCHANGED <<turn_vars, writable, transcript>>

session_delete(s) ==
    /\ Commit(delete_session(Store, s, writable))
    /\ UNCHANGED <<turn_vars, writable, transcript>>

\* data_dir becomes unwritable, or writable again
DiskFault ==
    /\ writable' = ~writable
    /\ UNCHANGED <<turn_vars, manager, meta_files, message_files, transcript>>

(* --------------------------- specifications ---------------------------- *)

\* chat_stream after stream_chat has returned: the session's metadata is saved
chat_stream_tail(t) ==
    /\ IF pc'[t] = "end" /\ pc[t] # "end" /\ manager[session_id[t]].cached
       THEN Commit(save_session(Store, session_id[t], writable))
       ELSE UNCHANGED <<manager, meta_files, message_files>>
    /\ UNCHANGED <<writable, transcript>>

TurnStep(t, cap, lists) ==
    /\ \/ \E cred \in Credentials : Authenticate(t, cred)
       \/ LoopTop(t)
       \/ ModelResolves(t)
       \/ AwaitModel(t, cap, lists)
       \/ BeginCall(t)
       \/ AwaitApproval(t)
       \/ \E collab_ok \in BOOLEAN : ToolReturns(t, collab_ok)
    /\ chat_stream_tail(t)

Observer ==
    \/ \E t \in Turns, s \in SessionIds, auto \in BOOLEAN : chat_stream(t, s, auto)
    \/ \E k \in SubmittedRequestIds, approved \in BOOLEAN : tool_approval_respond(k, approved)
    \/ \E t \in Turns : cancel_chat(t)

\* Concurrent turns. Each turn gets at most MaxOpenRounds responses that keep
\* its loop going, and a response carries one tool call.
Next ==
    \/ Observer
    \/ \E t \in Turns : TurnStep(t, MaxOpenRounds, CallLists(ModelCalls, 1))

Spec == Init /\ [][Next]_vars

\* One turn of session "s", with every response the model may give in each of
\* its rounds, a response carrying up to MaxCalls tool calls.
NextTurn ==
    \/ \E auto \in BOOLEAN : chat_stream(1, <<"s">>, auto)
    \/ \E k \in SubmittedRequestIds, approved \in BOOLEAN : tool_approval_respond(k, approved)
    \/ cancel_chat(1)
    \/ TurnStep(1, MAX_TOOL_STEPS, CallLists(DistinctCalls, MaxCalls))

SpecTurn == Init /\ [][NextTurn]_vars

\* One short turn of session "s": at most MaxOpenRounds of its rounds are
\* answered with a response that keeps the loop going, a response carrying up
\* to MaxCalls of the calls of ModelCalls.
NextTools ==
    \/ \E auto \in BOOLEAN : chat_stream(1, <<"s">>, auto)
    \/ \E k \in SubmittedRequestIds, approved \in BOOLEAN : tool_approval_respond(k, approved)
    \/ cancel_chat(1)
    \/ TurnStep(1, MaxOpenRounds, CallLists(ModelCalls, MaxCalls))

SpecTools == Init /\ [][NextTools]_vars

\* The short turn, with the lock around AppState.approvals becoming poisoned
\* at any moment.
NextLocks ==
    \/ NextTools
    \/ PoisonApprovals

SpecLocks == Init /\ [][NextLocks]_vars

\* the lines a wire log is made of
WireLines ==
    { TurnBegin(<< Item(TRUE, <<"h", "i">>) >>),
      TurnBegin(<< Item(FALSE, << >>), Item(TRUE, << >>), Item(TRUE, <<"y", "o">>) >>),
      ContentPart("text", <<"h", "e", "l", "l", "o", " ">>),
      ContentPart("text", <<"w", "o", "r", "l", "d">>),
      ContentPart("think", <<"h", "m">>),
      Record("ToolCall"), Record("StepEnd"), Record("TurnEnd"),
      BlankLine, UnparsableLine, Record("none"), Record("Other") }

\* the wire files load_messages may find
InitWire ==
    /\ NoTurns /\ NoSessions
    /\ loaded = NotLoaded
    /\ wire \in { [state |-> "absent", lines |-> << >>],
                   [state |-> "invalid", lines |-> << >>] }
                 \cup { [state |-> "text", lines |-> l] : l \in SeqsUpTo(WireLines, MaxLines) }

NextWire ==
    session_load_messages /\ UNCHANGED <<turn_vars, store>>

\* load_messages applied to every wire file of up to MaxLines lines
SpecWire == InitWire /\ [][NextWire]_vars

\* a message left in a messages file by an earlier run of the application
OldMessage == [role |-> "user", content |-> "o"]

\* start of the application over the data_dir an earlier run left behind
InitStore ==
    /\ NoTurns /\ NoWire
    /\ manager = [s \in SessionIds |-> Uncached]
    /\ writable = TRUE
    /\ meta_files \in SUBSET SessionIds
    /\ message_files \in [SessionIds -> { << >>, << OldMessage >> }]

\* The session commands, with turns that are started and authenticated only.
NextStore ==
    \/ \E t \in Turns, s \in SessionIds : chat_stream(t, s, FALSE)
    \/ \E t \in Turns, cred \in Credentials : Authenticate(t, cred) /\ chat_stream_tail(t)
    \/ \E s \in SessionIds : session_save_message(s, "assistant", "r")
    \/ session_list
    \/ \E s \in SessionIds : session_messages(s)
    \/ \E s \in SessionIds : session_delete(s)
    \/ DiskFault

SpecStore == InitStore /\ [][NextStore]_vars

\* a decision is eventually submitted for a pending request
Decide == \E a \in approvals, approved \in BOOLEAN : tool_approval_respond(a.request_id, approved)

\* SpecTurn where the runtime keeps polling the turn, the model call and the
\* tools resolve, and a pending approval is eventually decided
FairSpecTurn ==
    /\ SpecTurn
    /\ WF_vars(TurnStep(1, MAX_TOOL_STEPS, CallLists(DistinctCalls, MaxCalls)))
    /\ WF_vars(Decide)

(* ------------------------------- claims -------------------------------- *)

Ended(t) == pc[t] = "end"

Count(t, kind) == Cardinality({ i \in 1..Len(events[t]) : events[t][i].event = kind })

LastEvent(t) == events[t][Len(events[t])]

OutcomeDone(t) ==
    /\ result[t] = "Ok"
    /\ Count(t, "chunk") = 1 /\ Count(t, "done") = 1
    /\ Count(t, "cancelled") = 0 /\ Count(t, "error") = 0
    /\ Len(events[t]) >= 2
    /\ LastEvent(t).event = "done"
    /\ events[t][Len(events[t]) - 1].event = "chunk"

OutcomeCancelled(t) ==
    /\ result[t] = "Ok"
    /\ Count(t, "cancelled") = 1
    /\ Count(t, "chunk") = 0 /\ Count(t, "done") = 0 /\ Count(t, "error") = 0
    /\ LastEvent(t).event = "cancelled"

OutcomeError(t) ==
    /\ result[t] \notin {"none", "Ok"}
    /\ Count(t, "chunk") = 0 /\ Count(t, "done") = 0 /\ Count(t, "cancelled") = 0
    /\ Count(t, "error") <= 1

NoOutcomeYet(t) ==
    /\ result[t] = "none"
    /\ \A k \in TerminalKinds : Count(t, k) = 0

OneOutcome(t) ==
    /\ step[t] <= MAX_TOOL_STEPS
    /\ IF Ended(t)
       THEN OutcomeDone(t) \/ OutcomeCancelled(t) \/ OutcomeError(t)
       ELSE NoOutcomeYet(t)

\* C1: a turn has no terminal outcome while it runs and exactly one of done
\* (chunk then done, Ok), cancelled (cancelled, Ok) or error (Err) once it has
\* ended, it never issues more than MAX_TOOL_STEPS model rounds, and, when the
\* model call, the tools and the approval waits resolve, every started turn ends.
C1_OneTerminalOutcome ==
    /\ [](\A t \in Turns : OneOutcome(t))
    /\ \A t \in Turns : (pc[t] # "idle") ~> Ended(t)

C1_Witness ==
    /\ Ended(1) /\ OutcomeDone(1) /\ step[1] = MAX_TOOL_STEPS

\* C2: a turn issues at most MAX_TOOL_STEPS model rounds, and a turn that ended
\* with every issued round answered by tool calls and no cancellation signal
\* ended with the step-budget error after exactly MAX_TOOL_STEPS rounds,
\* without a done event.
C2_StepBudget ==
    \A t \in Turns :
        /\ step[t] <= MAX_TOOL_STEPS
        /\ (Ended(t) /\ step[t] >= 1 /\ only_tool_rounds[t] /\ cancel_rx[t] = "empty")
             => /\ result[t] = "Exceeded maximum tool steps"
                /\ step[t] = 20
                /\ Count(t, "done") = 0

C2_Witness ==
    /\ Ended(1) /\ only_tool_rounds[1] /\ cancel_rx[1] = "empty"
    /\ result[1] = "Exceeded maximum tool steps"

GatedTools == {"Shell", "WriteFile", "StrReplaceFile"}

Granted(t, h) ==
    /\ h.approval.state = "sent"
    /\ h.approval.approved
    /\ h.approval.request_id = session_id[t] \o <<":">> \o h.tool_call_id

\* C3: with auto-approve off, every gated call for which execute_tool has been
\* invoked received a decision approved = true submitted under its own
\* request id session_id:tool_call_id.
C3_GatedNeedsApproval ==
    \A t \in Turns : \A i \in 1..Len(handled[t]) :
        (handled[t][i].executed /\ handled[t][i].name \in GatedTools /\ ~auto_approve[t])
            => Granted(t, handled[t][i])

C3_Witness ==
    \E t \in Turns : \E i \in 1..Len(handled[t]) :
        /\ handled[t][i].executed /\ handled[t][i].name \in GatedTools /\ ~auto_approve[t]
        /\ \E u \in Turns \ {t} : pc[u] = "approval"

ToolResults(t) == SelectSeq(events[t], LAMBDA e : e.event = "tool_result")

ToolEntries(t) == SelectSeq(messages[t], LAMBDA m : m.role = "tool")

Rejected(h) == h.approval.state = "closed" \/ (h.approval.state = "sent" /\ ~h.approval.approved)

\* C4: a call whose approval resolved to false is not executed, and its
\* tool_result event and its tool entry carry ok = false.
C4_RejectedNotExecuted ==
    \A t \in Turns : \A i \in 1..Len(handled[t]) :
        Rejected(handled[t][i])
            => /\ ~handled[t][i].executed
               /\ Len(ToolResults(t)) >= i
               /\ ToolResults(t)[i].tool_call_id = handled[t][i].tool_call_id
               /\ ~ToolResults(t)[i].ok
               /\ Len(ToolEntries(t)) >= i
               /\ ToolEntries(t)[i].tool_call_id = handled[t][i].tool_call_id
               /\ ~ToolEntries(t)[i].ok

C4_Witness ==
    \E t \in Turns : \E i \in 1..Len(handled[t]) :
        /\ handled[t][i].approval.state = "sent" /\ ~handled[t][i].approval.approved
        /\ pc[t] = "top"

NoSideEffects(t) ==
    /\ step[t] = 0
    /\ handled[t] = << >>
    /\ Count(t, "tool_approval") = 0
    /\ \A a \in approvals : a.owner # t
    /\ messages[t] \in { << >>, << [role |-> "system"], [role |-> "user"] >> }

C6_CancelledInApproval ==
    \A t \in Turns :
        (Ended(t) /\ cancel_point[t] = "approval")
            => (OutcomeCancelled(t) /\ \A a \in approvals : a.owner # t)

\* C7: when a turn blocked in the model call or in the approval wait, whose
\* cancellation has been signaled, is resumed, it ends cancelled, whatever
\* else has become available.
C7_CancellationTakesPrecedence ==
    [][\A t \in Turns :
         (pc[t] \in {"model", "approval"} /\ cancel_rx[t] = "sent" /\ pc'[t] # pc[t])
            => (Ended(t)' /\ OutcomeCancelled(t)' /\ handled'[t] = handled[t])]_vars

\* C8: an invocation of cancel_chat for one turn signals no other turn.
C8_CancelScopedToOneTurn ==
    [][\A target \in Turns :
         cancel_chat(target) => \A u \in Turns \ {target} : cancel_rx'[u] = cancel_rx[u]]_vars

Started(t) == pc[t] # "idle"

AnnouncedIds(t) ==
    { events[t][i].request_id :
        i \in { j \in 1..Len(events[t]) : events[t][j].event = "tool_approval" } }

HasPrefix(q, p) == Len(q) >= Len(p) /\ SubSeq(q, 1, Len(p)) = p

OwnSessionOnly(t) ==
    /\ \A i \in 1..Len(events[t]) : events[t][i].session_id = session_id[t]
    /\ \A a \in approvals : a.owner = t => HasPrefix(a.request_id, session_id[t] \o <<":">>)

\* the decision turn t receives in this step was submitted under a request id
\* that no turn of another session has announced
DecisionFromOwnSession(t) ==
    (rx[t].state = "empty" /\ rx'[t].state = "sent")
        => \A u \in Turns :
              (Started(u) /\ session_id[u] # session_id[t])
                 => rx'[t].request_id \notin AnnouncedIds(u)

\* C9: every event of a turn carries the turn's session_id, every request it
\* registers is keyed under its session_id, and a decision submitted under the
\* request id of one session's turn never resolves the pending approval of a
\* turn of another session.
C9_SessionIsolation ==
    /\ [](\A t \in Turns : OwnSessionOnly(t))
    /\ [][\A t \in Turns : DecisionFromOwnSession(t)]_vars

ToolEvents(t) == SelectSeq(events[t], LAMBDA e : e.event \in {"tool_status", "tool_result"})

IsToolStatus(e, id, state) ==
    e.event = "tool_status" /\ e.tool_call_id = id /\ e.state = state

\* C10: when a round of N tool calls has been completed, the tool events of
\* the round are, call by call in call order, tool_status(start),
\* tool_status(end), tool_result.
C10_ThreeEventsPerCall ==
    \A t \in Turns :
        (pc[t] = "top" /\ Len(calls[t]) > 0)
            => /\ Len(handled[t]) = Len(calls[t])
               /\ Len(ToolEvents(t)) = 3 * Len(calls[t])
               /\ \A k \in 1..Len(calls[t]) :
                     LET id == handled[t][k].tool_call_id
                         ev == ToolEvents(t)
                     IN  /\ IsToolStatus(ev[3 * k - 2], id, "start")
                         /\ IsToolStatus(ev[3 * k - 1], id, "end")
                         /\ ev[3 * k].event = "tool_result"
                         /\ ev[3 * k].tool_call_id = id

RoundCompleted(t) == pc[t] = "top" /\ Len(calls[t]) > 0

ToolStatusEnds(t) ==
    SelectSeq(events[t], LAMBDA e : e.event = "tool_status" /\ e.state = "end")

\* C11: when a round of N tool calls has been completed, what the round added
\* to ConversationState is one assistant entry carrying the N descriptors
\* followed by exactly N tool entries; the k-th tool entry carries the
\* non-empty id the k-th call was processed under (the model's id when it sent
\* one), which is the id of the call's tool_status and tool_result events.
C11_ToolRoundEntries ==
    \A t \in Turns :
        RoundCompleted(t)
            => LET N == Len(calls[t])
               IN  /\ Len(messages[t]) = N + 1
                   /\ messages[t][1].role = "assistant"
                   /\ messages[t][1].tool_calls = calls[t]
                   /\ Len(handled[t]) = N
                   /\ Len(ToolResults(t)) = N
                   /\ Len(ToolStatusEnds(t)) = N
                   /\ \A k \in 1..N :
                         LET id == handled[t][k].tool_call_id
                         IN  /\ messages[t][k + 1].role = "tool"
                             /\ messages[t][k + 1].tool_call_id = id
                             /\ id # << >>
                             /\ calls[t][k].id # << >> => id = calls[t][k].id
                             /\ handled[t][k].name = calls[t][k].name
                             /\ ToolResults(t)[k].tool_call_id = id
                             /\ ToolStatusEnds(t)[k].tool_call_id = id

C11_Witness ==
    /\ RoundCompleted(1) /\ Len(calls[1]) = MaxCalls
    /\ calls[1][1].id = << >>
    /\ Rejected(handled[1][MaxCalls])

\* C12: a turn that is back at the top of its loop after a round whose
\* response carried no tool call issues no further model round.
C12_NoToolCallsStopsLoop ==
    [][\A t \in Turns :
         (pc[t] = "top" /\ step[t] >= 1 /\ calls[t] = << >>) => step'[t] = step[t]]_vars

PairedChunkDone(t) ==
    \A i \in 1..Len(events[t]) :
        /\ events[t][i].event = "chunk"
             => /\ i < Len(events[t])
                /\ events[t][i + 1] = EvDone(session_id[t])
        /\ events[t][i].event = "done"
             => /\ i > 1
                /\ events[t][i - 1].event = "chunk"
                /\ events[t][i].usage = "usage"
                /\ Ended(t) /\ OutcomeDone(t)

\* C13: a chunk event is immediately followed by the done event carrying the
\* usage and a done event immediately preceded by a chunk, in a turn that
\* ended with outcome done; and the step that handles a response with no tool
\* call and non-empty content ends the turn with outcome done, its last two
\* events being chunk with that content and done.
C13_ChunkThenDone ==
    /\ [](\A t \in Turns : PairedChunkDone(t))
    /\ [][\A t \in Turns : \A r \in FinalRounds :
             (pc[t] = "model" /\ response[t] /\ HandleResponse(t, r))
                => /\ Ended(t)' /\ OutcomeDone(t)'
                   /\ events'[t][Len(events'[t]) - 1] = EvChunk(session_id[t], r.content)
                   /\ events'[t][Len(events'[t])] = EvDone(session_id[t])]_vars

C13_Witness ==
    /\ Ended(1) /\ step[1] = 2
    /\ events[1] = << EvThinking(<<"s">>, "why"), EvChunk(<<"s">>, "text"), EvDone(<<"s">>) >>

CredentialFailures == {"API key not configured", "Not logged in"}

RoundFailures ==
    {"Request failed", "API error", "Failed to parse response", "No message in response"}

FatalOutcome(t, m) ==
    /\ Ended(t) /\ result[t] = m
    /\ Count(t, "error") = (IF m \in CredentialFailures THEN 1 ELSE 0)
    /\ Count(t, "chunk") = 0 /\ Count(t, "done") = 0

\* C14: a turn that returned a failure returned one of the fatal conditions,
\* emitted at most one error event (exactly one for a missing credential, which
\* is reported by both) and no chunk and no done; an error event is emitted
\* only by such a turn; and each fatal condition - missing credential, failed
\* model round, exhausted step budget - ends the turn with that failure.
C14_FatalYieldsOneError ==
    /\ [](\A t \in Turns :
            /\ (Ended(t) /\ result[t] # "Ok")
                 => /\ result[t] \in CredentialFailures \cup RoundFailures
                                       \cup {"Exceeded maximum tool steps"}
                    /\ FatalOutcome(t, result[t])
            /\ Count(t, "error") > 0 => (Ended(t) /\ result[t] \in CredentialFailures))
    /\ [][\A t \in Turns :
             /\ \A cred \in CredentialFailures :
                   (pc[t] = "auth" /\ Authenticate(t, cred)) => FatalOutcome(t, cred)'
             /\ \A r \in FailedRounds :
                   (pc[t] = "model" /\ response[t] /\ HandleResponse(t, r))
                      => FatalOutcome(t, r.kind)'
             /\ (pc[t] = "top" /\ step[t] >= MAX_TOOL_STEPS /\ pc'[t] # "top")
                   => FatalOutcome(t, "Exceeded maximum tool steps")']_vars

C14_Witness ==
    /\ FatalOutcome(1, "Failed to parse response")
    /\ step[1] = MAX_TOOL_STEPS

ToolFailure(t, k) ==
    \/ calls[t][k].name \notin CatalogNames
    \/ calls[t][k].arguments = "empty" /\ handled[t][k].executed
    \/ Rejected(handled[t][k])

\* C15: the result of a call with an unknown name, of an executed call missing
\* its required argument and of a rejected call has ok = false; every call's
\* tool_result event and tool entry carry the same id, ok and summary; while a
\* round is in progress the turn is at the call after the last result; a turn
\* that ended in a round with results was cancelled or out of budget; and after
\* a completed round with a failed result the next round is issued.
C15_ToolFailuresNotFatal ==
    /\ [](\A t \in Turns :
            /\ Len(ToolEntries(t)) = Len(ToolResults(t))
            /\ Len(ToolResults(t)) <= Len(handled[t])
            /\ \A k \in 1..Len(ToolResults(t)) :
                  /\ ToolFailure(t, k) => ~ToolResults(t)[k].ok
                  /\ ToolEntries(t)[k].tool_call_id = ToolResults(t)[k].tool_call_id
                  /\ ToolEntries(t)[k].ok = ToolResults(t)[k].ok
                  /\ ToolEntries(t)[k].summary = ToolResults(t)[k].summary
            /\ (~Ended(t) /\ calls[t] # << >> /\ Len(ToolResults(t)) < Len(calls[t]))
                 => /\ idx[t] = Len(ToolResults(t)) + 1
                    /\ pc[t] \in {"call", "approval", "exec"}
            /\ (Ended(t) /\ Len(ToolResults(t)) > 0)
                 => \/ OutcomeCancelled(t)
                    \/ result[t] = "Exceeded maximum tool steps")
    /\ [][\A t \in Turns :
             (/\ RoundCompleted(t)
              /\ \E k \in 1..Len(ToolResults(t)) : ~ToolResults(t)[k].ok
              /\ step[t] < MAX_TOOL_STEPS /\ cancel_rx[t] = "empty"
              /\ pc'[t] # pc[t])
                => (pc'[t] = "model" /\ step'[t] = step[t] + 1)]_vars

C15_Witness ==
    /\ pc[1] = "call" /\ idx[1] = 2
    /\ calls[1][1].arguments = "empty"
    /\ ToolResults(1)[1].summary = "Missing argument"
    /\ calls[1][2].name = "Bogus"

\* C16: a decision submitted for a request id that is not pending is reported
\* not found and changes nothing; after an accepted decision its request id is
\* not pending, so a second decision for it is reported not found; and no
\* entry registered by a turn that has ended is pending.
C16_RespondNotFound ==
    /\ [](\A t \in Turns : Ended(t) => \A a \in approvals : a.owner # t)
    /\ [][\A k \in SubmittedRequestIds, approved \in BOOLEAN :
             tool_approval_respond(k, approved)
                => /\ Owners(k) = {}
                        => /\ respond_result(k) = "Approval request not found"
                           /\ UNCHANGED vars
                   /\ respond_result(k)' = "Approval request not found"]_vars

C16_Witness ==
    \E t \in Turns :
        /\ pc[t] = "approval" /\ rx[t].state = "sent"
        /\ rx[t].request_id \in KnownRequestIds
        /\ Owners(rx[t].request_id) = {}

\* C17: a pending approval is resolved only by a decision submitted for it or
\* by the cancellation of its own turn: its Receiver never closes without a
\* decision, an entry is in the map exactly while its turn waits unresolved,
\* and a turn leaves the wait with its entry removed.
C17_ResolvedExactlyOnce ==
    /\ [](\A t \in Turns : rx[t].state # "closed")
    /\ [](\A a \in approvals : pc[a.owner] = "approval" /\ rx[a.owner].state = "empty")
    /\ [][\A t \in Turns :
             (pc[t] = "approval" /\ pc'[t] # "approval")
                => /\ \A a \in approvals' : a.owner # t
                   /\ rx[t].state = "sent" \/ cancel_rx[t] = "sent"]_vars

ExampleLog ==
    << TurnBegin(<< Item(TRUE, <<"h", "i">>) >>),
       ContentPart("text", <<"h", "e", "l", "l", "o", " ">>),
       ContentPart("text", <<"w", "o", "r", "l", "d">>),
       Record("TurnEnd") >>

IsTextPart(line) ==
    line.kind = "record" /\ line.type = "ContentPart" /\ line.part_type = "text"
        /\ line.has_text

\* C18: load_messages returns for ExampleLog the user message "hi" followed
\* by the assistant message "hello world"; and for any log, two consecutive
\* text parts read in assistant mode add no message and leave the buffer
\* extended by the first text followed by the second.
C18_ExampleTranscript ==
    loaded.status = "Ok"
        => /\ wire.lines = ExampleLog
                => loaded.messages =
                     << Message("user", <<"h", "i">>),
                        Message("assistant",
                                <<"h", "e", "l", "l", "o", " ", "w", "o", "r", "l", "d">>) >>
           /\ \A i \in 1..(Len(wire.lines) - 1) :
                 LET before == after_lines(wire.lines, i - 1)
                     after == after_lines(wire.lines, i + 1)
                 IN  (/\ IsTextPart(wire.lines[i]) /\ IsTextPart(wire.lines[i + 1])
                      /\ before.current_role = "assistant")
                        => /\ after.messages = before.messages
                           /\ after.current_content =
                                 before.current_content \o wire.lines[i].text
                                                        \o wire.lines[i + 1].text

C18_Witness ==
    /\ loaded.status = "Ok" /\ wire.lines = ExampleLog
    /\ Len(loaded.messages) = 2

Malformed(line) ==
    \/ line.kind # "record"
    \/ line.type \notin {"TurnBegin", "ContentPart", "ToolCall", "StepEnd", "TurnEnd"}

\* C19: for a wire file that is a text of lines, load_messages returns Ok, what
\* it returns is what it returns for the lines that are not blank, unparsable,
\* without type or of an unrecognized type, and such a line leaves the messages,
\* the buffer and the mode as they were.
C19_MalformedLinesSkipped ==
    /\ (loaded.status # "none" /\ wire.state = "text")
          => /\ loaded.status = "Ok"
             /\ loaded.messages =
                   load_messages(SelectSeq(wire.lines, LAMBDA l : ~Malformed(l)))
    /\ \A i \in 1..Len(wire.lines) :
          Malformed(wire.lines[i])
             => after_lines(wire.lines, i) = after_lines(wire.lines, i - 1)

C19_Witness ==
    /\ loaded.status = "Ok" /\ Len(wire.lines) = MaxLines
    /\ wire.lines[1].type = "TurnBegin"
    /\ IsTextPart(wire.lines[2])
    /\ wire.lines[3] = Record("Other")
    /\ wire.lines[4] = UnparsableLine
    /\ Len(loaded.messages) = 2

IsPrefix(p, q) == Len(p) <= Len(q) /\ SubSeq(q, 1, Len(p)) = p

\* C20: while a session stays cached (it is not deleted by the step), the
\* message list it had before a step is a prefix of the one it has after.
C20_MessagesAppendOnly ==
    [][\A s \in SessionIds :
         (manager[s].cached /\ manager'[s].cached)
            => IsPrefix(manager[s].messages, manager'[s].messages)]_vars

\* C21: a turn emits the cancelled event at most once; once it has emitted it
\* the turn is over, cancelled is its last event and no approval is registered
\* for it, and from then on the turn emits no event, appends nothing to its
\* messages, issues no model round, dispatches no tool and registers no
\* approval.
C21_CancelledIsFinal ==
    /\ [](\A t \in Turns :
            /\ Count(t, "cancelled") <= 1
            /\ Count(t, "cancelled") = 1
                  => /\ Ended(t)
                     /\ LastEvent(t).event = "cancelled"
                     /\ \A a \in approvals : a.owner # t)
    /\ [][\A t \in Turns :
            Count(t, "cancelled") = 1
               => /\ events'[t] = events[t]
                  /\ messages'[t] = messages[t]
                  /\ step'[t] = step[t]
                  /\ handled'[t] = handled[t]
                  /\ pc'[t] = pc[t]
                  /\ \A a \in approvals' : a.owner # t]_vars

C21_Witness ==
    /\ Ended(1) /\ OutcomeCancelled(1)
    /\ cancel_point[1] = "approval"
    /\ Len(events[1]) >= 2
    /\ events[1][Len(events[1]) - 1].event = "tool_approval"

\* a cancellation was signaled while the turn was executing a tool and the
\* turn has not acted on it yet
CancelledWhileExecuting(t) == cancel_point[t] = "exec" /\ cancel_rx[t] = "sent"

\* the step completes the executing tool: its tool_status(end), its
\* tool_result and its tool entry are produced
ToolCompletes(t) ==
    /\ pc'[t] \in {"call", "top"}
    /\ Len(ToolStatusEnds(t)') = Len(ToolStatusEnds(t)) + 1
    /\ Len(ToolResults(t)') = Len(ToolResults(t)) + 1
    /\ Len(ToolEntries(t)') = Len(ToolEntries(t)) + 1
    /\ LastEvent(t)'.tool_call_id = handled[t][Len(handled[t])].tool_call_id
    /\ handled'[t] = handled[t] /\ step'[t] = step[t]

\* the step ends the turn without another tool or another model round
EndsWithoutFurtherWork(t) ==
    /\ Ended(t)'
    /\ step'[t] = step[t]
    /\ handled'[t] = handled[t]
    /\ messages'[t] = messages[t]

\* C22 as stated: a cancellation signaled while a tool is executing lets the
\* tool finish (tool_status(end), tool_result and tool entry are produced), and
\* the turn's next step after that ends it cancelled, with no further tool
\* dispatched and no further model round issued.
C22_CooperativeCancellation ==
    [][\A t \in Turns :
         CancelledWhileExecuting(t)
            => /\ (pc[t] = "exec" /\ pc'[t] # "exec") => ToolCompletes(t)
               /\ (pc[t] \in {"call", "top"} /\ pc'[t] # pc[t])
                     => /\ EndsWithoutFurtherWork(t)
                        /\ OutcomeCancelled(t)']_vars

\* C22, amended: as C22, except that when the tool was the last call of round
\* MAX_TOOL_STEPS the turn ends with the failure "Exceeded maximum tool steps"
\* and no cancelled event, because the loop is left before its next check.
C22_CooperativeCancellationWithinBudget ==
    [][\A t \in Turns :
         CancelledWhileExecuting(t)
            => /\ (pc[t] = "exec" /\ pc'[t] # "exec") => ToolCompletes(t)
               /\ (pc[t] \in {"call", "top"} /\ pc'[t] # pc[t])
                     => /\ EndsWithoutFurtherWork(t)
                        /\ IF pc[t] = "top" /\ step[t] = MAX_TOOL_STEPS
                           THEN /\ result'[t] = "Exceeded maximum tool steps"
                                /\ Count(t, "cancelled")' = 0
                           ELSE OutcomeCancelled(t)']_vars

C22_Witness ==
    /\ Ended(1) /\ OutcomeCancelled(1)
    /\ cancel_point[1] = "exec"
    /\ Len(calls[1]) = MaxCalls
    /\ Len(handled[1]) = 1 /\ handled[1][1].executed
    /\ Len(ToolResults(1)) = 1 /\ Len(ToolEntries(1)) = 1

\* the turn waits in request_approval and its slot has neither received a
\* decision nor been closed
AwaitingDecision(t) == pc[t] = "approval" /\ rx[t].state = "empty"

\* C23: while a turn waits in request_approval, the last event it emitted is
\* the tool_approval event whose request_id is session_id:tool_call_id; as long
\* as its slot has received no decision and has not been closed, the slot is
\* in the pending map under that key, tool_approval_respond returns Ok for the
\* key, and a decision submitted for the key reaches the turn.
C23_PendingDecisionAccepted ==
    /\ [](\A t \in Turns :
            pc[t] = "approval"
               => LET k == session_id[t] \o <<":">> \o ToolCallId(t)
                  IN /\ LastEvent(t).event = "tool_approval"
                     /\ LastEvent(t).request_id = k
                     /\ AwaitingDecision(t)
                           => /\ [request_id |-> k, owner |-> t] \in approvals
                              /\ respond_result(k) = "Ok")
    /\ [][\A t \in Turns, k \in SubmittedRequestIds, approved \in BOOLEAN :
            (/\ AwaitingDecision(t)
             /\ k = session_id[t] \o <<":">> \o ToolCallId(t)
             /\ tool_approval_respond(k, approved))
               => rx'[t] = [state |-> "sent", approved |-> approved, request_id |-> k]]_vars

C23_Witness ==
    /\ pc[1] = "approval"
    /\ cancel_rx[1] = "empty"
    /\ rx[1] = [state |-> "sent", approved |-> TRUE,
                request_id |-> LastEvent(1).request_id]
    /\ approvals = {}

ToolStatusStarts(t) ==
    SelectSeq(events[t], LAMBDA e : e.event = "tool_status" /\ e.state = "start")

ApprovalRequests(t) == SelectSeq(events[t], LAMBDA e : e.event = "tool_approval")

\* the calls of the round that reached execute_tool, and those that reached
\* request_approval and came back from it
Executed(t) == SelectSeq(handled[t], LAMBDA h : h.executed)
Requested(t) == SelectSeq(handled[t], LAMBDA h : h.approval.state # "not_requested")

\* C24: every call of the round that reached execute_tool or request_approval
\* is processed under a non-empty id: the model's id when it sent one, else a
\* token that differs from every id the model sent and from the id of every
\* other call of the round. The call's approval request key is
\* session_id:that id, and its tool_status(start), tool_status(end),
\* tool_result and tool entry carry that id.
C24_OneIdPerCall ==
    \A t \in Turns :
        /\ \A k \in 1..Len(handled[t]) :
              LET id == handled[t][k].tool_call_id
              IN /\ id # << >>
                 /\ calls[t][k].id # << >> => id = calls[t][k].id
                 /\ calls[t][k].id = << >>
                       => /\ \A j \in 1..Len(calls[t]) : calls[t][j].id # id
                          /\ \A j \in 1..Len(handled[t]) :
                                j # k => handled[t][j].tool_call_id # id
                 /\ k <= Len(ToolStatusEnds(t)) => ToolStatusEnds(t)[k].tool_call_id = id
                 /\ k <= Len(ToolResults(t)) => ToolResults(t)[k].tool_call_id = id
                 /\ k <= Len(ToolEntries(t)) => ToolEntries(t)[k].tool_call_id = id
        /\ Len(ToolResults(t)) <= Len(handled[t])
        /\ Len(ToolStatusStarts(t)) = Len(Executed(t))
        /\ \A k \in 1..Len(Executed(t)) :
              ToolStatusStarts(t)[k].tool_call_id = Executed(t)[k].tool_call_id
        /\ Len(ApprovalRequests(t)) >= Len(Requested(t))
        /\ \A k \in 1..Len(Requested(t)) :
              ApprovalRequests(t)[k].request_id
                 = session_id[t] \o <<":">> \o Requested(t)[k].tool_call_id
        /\ pc[t] = "approval"
              => /\ calls[t][idx[t]].id # << >> => ToolCallId(t) = calls[t][idx[t]].id
                 /\ ToolCallId(t) # << >>
                 /\ LastEvent(t).request_id = session_id[t] \o <<":">> \o ToolCallId(t)

C24_Witness ==
    /\ RoundCompleted(1) /\ Len(handled[1]) = MaxCalls
    /\ calls[1][1].id = << >> /\ handled[1][1].executed
    /\ calls[1][2].id # << >> /\ handled[1][2].executed
    /\ handled[1][2].approval.state = "sent"
    /\ Len(ToolEntries(1)) = MaxCalls

\* C25: two approval requests that are pending at the same time under the
\* same key come from the same session and carry the same tool-call id.
C25_KeysDistinguishRequests ==
    \A t, u \in Turns :
        (/\ pc[t] = "approval" /\ pc[u] = "approval"
         /\ RequestId(session_id[t], ToolCallId(t)) = RequestId(session_id[u], ToolCallId(u)))
            => /\ session_id[t] = session_id[u]
               /\ ToolCallId(t) = ToolCallId(u)

\* the turn is suspended at the model call, the approval wait or a tool
Suspended(t) == pc[t] \in {"model", "approval", "exec"}

\* C26: in every state, and so whenever a turn is suspended at the model
\* call, the approval wait or a tool execution, neither the approvals lock nor
\* the cancel-handle lock is held; while a turn is suspended, cancel_chat can
\* run for every live turn, tool_approval_respond can run for every pending
\* key, and a turn of another session that is about to process a call can
\* take its step.
C26_LocksNotHeldWhileSuspended ==
    /\ locks["approvals"] # "held" /\ locks["sessions"] # "held"
    /\ \A t \in Turns :
          Suspended(t)
             => /\ \A u \in sessions : ENABLED cancel_chat(u)
                /\ \A a \in approvals : ENABLED tool_approval_respond(a.request_id, TRUE)
                /\ \A u \in Turns \ {t} : pc[u] = "call" => ENABLED BeginCall(u)

C26_Witness ==
    /\ pc[1] = "approval" /\ pc[2] = "approval"
    /\ session_id[1] # session_id[2]
    /\ Cardinality(approvals) = 2
    /\ sessions = {}
    /\ cancel_point[1] = "approval" /\ cancel_point[2] = "approval"

\* the step of turn t is one in which request_approval finds the approvals
\* lock poisoned: when it registers the slot, or when it deregisters it in its
\* cancellation branch
LockFailure(t) ==
    /\ lock_err("approvals")
    /\ pc'[t] # pc[t]
    /\ \/ /\ pc[t] = "call" /\ cancel_rx[t] # "sent"
          /\ needs_approval(calls[t][idx[t]].name) /\ ~auto_approve[t]
       \/ /\ pc[t] = "approval" /\ Ended(t)'

\* C27: a step in which request_approval finds the approvals lock poisoned
\* ends the turn with the error outcome (a returned failure, no cancelled and
\* no done event) and without the tool having been dispatched.
C27_PoisonedLockIsAnError ==
    [][\A t \in Turns :
         LockFailure(t)
            => /\ Ended(t)'
               /\ OutcomeError(t)'
               /\ handled'[t] = handled[t]]_vars

\* C28: the step that handles a failed round (request error, non-success
\* status, unparsable body, no message) ends the turn with that failure as
\* its return value, emitting nothing, dispatching no tool and issuing no
\* round; and a turn that has returned such a failure issues no further round
\* and dispatches no tool.
C28_FailedRoundNotRetried ==
    /\ [][\A t \in Turns, r \in FailedRounds :
            (pc[t] = "model" /\ response[t] /\ HandleResponse(t, r))
               => /\ Ended(t)'
                  /\ result'[t] = r.kind
                  /\ step'[t] = step[t]
                  /\ handled'[t] = handled[t]
                  /\ events'[t] = events[t]]_vars
    /\ [][\A t \in Turns :
            (Ended(t) /\ result[t] \in RoundFailures)
               => /\ pc'[t] = pc[t] /\ result'[t] = result[t]
                  /\ step'[t] = step[t]
                  /\ handled'[t] = handled[t]]_vars

C28_Witness ==
    /\ Ended(1) /\ result[1] = "Failed to parse response"
    /\ step[1] = MaxOpenRounds + 1
    /\ handled[1] = << >>
    /\ Count(1, "error") = 0

\* C29: the step that handles a response with no tool call and empty content
\* ends the turn as a success: stream_chat returns Ok, a done event has been
\* emitted and no error event.
C29_EmptyResponseEndsDone ==
    [][\A t \in Turns, r \in EmptyRounds :
         (pc[t] = "model" /\ response[t] /\ HandleResponse(t, r))
            => /\ Ended(t)'
               /\ result'[t] = "Ok"
               /\ Count(t, "done")' = 1
               /\ Count(t, "error")' = 0]_vars

\* C30: every call of the round for which execute_tool has been invoked
\* carries the name of a tool of the Catalog.
C30_OnlyCatalogNamesDispatched ==
    \A t \in Turns :
        \A k \in 1..Len(handled[t]) :
            handled[t][k].executed => handled[t][k].name \in CatalogNames

\* C31: a call of the round went through request_approval exactly when its
\* tool is gated and auto-approve is off, and a turn waits at the approval gate
\* only for such a call; the turn has emitted one tool_approval event per such
\* call; with auto-approve on it has emitted none, owns no pending entry and
\* does not wait at the gate.
C31_ApprovalIffGatedAndNotAuto ==
    \A t \in Turns :
        /\ \A k \in 1..Len(handled[t]) :
              handled[t][k].approval.state # "not_requested"
                 <=> (handled[t][k].name \in GatedTools /\ ~auto_approve[t])
        /\ pc[t] = "approval"
              => (calls[t][idx[t]].name \in GatedTools /\ ~auto_approve[t])
        /\ Len(ApprovalRequests(t)) \in { Len(Requested(t)), Len(Requested(t)) + 1 }
        /\ pc[t] = "approval" => Len(ApprovalRequests(t)) = Len(Requested(t)) + 1
        /\ Len(ApprovalRequests(t)) > Len(Requested(t))
              => pc[t] = "approval" \/ (Ended(t) /\ cancel_point[t] = "approval")
        /\ \A a \in approvals : a.owner = t => pc[t] = "approval"
        /\ auto_approve[t]
              => /\ Count(t, "tool_approval") = 0
                 /\ \A a \in approvals : a.owner # t
                 /\ pc[t] # "approval"

C31_Witness ==
    /\ RoundCompleted(1) /\ auto_approve[1]
    /\ Len(handled[1]) = MaxCalls
    /\ handled[1][1].name = "Shell" /\ handled[1][1].executed
    /\ handled[1][2].name = "ReadFile" /\ handled[1][2].executed
    /\ Count(1, "tool_approval") = 0

\* the turn has been signaled by an earlier cancel_chat
Signaled(t) == cancel_rx[t] \in {"sent", "taken"}

\* C32: an invocation of cancel_chat returns Ok and changes nothing of a turn
\* that an earlier invocation has signaled or that has ended: its pending
\* signal, its position, its events, its messages and its return value stay
\* as they are; and a turn emits the cancelled event at most once.
C32_CancelIdempotent ==
    /\ [](cancel_chat_result = "Ok")
    /\ [](\A t \in Turns : Count(t, "cancelled") <= 1)
    /\ [][\A t \in Turns :
            ((Signaled(t) \/ Ended(t)) /\ \E target \in Turns : cancel_chat(target))
               => /\ cancel_rx'[t] = cancel_rx[t]
                  /\ cancel_point'[t] = cancel_point[t]
                  /\ pc'[t] = pc[t]
                  /\ events'[t] = events[t]
                  /\ messages'[t] = messages[t]
                  /\ result'[t] = result[t]]_vars

C32_Witness ==
    /\ cancel_rx[1] = "sent" /\ cancel_point[1] = "approval" /\ pc[1] = "approval"
    /\ cancel_rx[2] = "taken" /\ cancel_point[2] = "model"
    /\ OutcomeCancelled(2)
    /\ sessions = {}

\* the text of the first item of a user_input list whose text is not empty
RECURSIVE FirstNonEmptyText(_)
FirstNonEmptyText(items) ==
    IF items = << >> THEN << >>
    ELSE IF Head(items).has_text /\ Head(items).text # << >> THEN Head(items).text
    ELSE FirstNonEmptyText(Tail(items))

\* the messages with the buffer flushed as an assistant message when the mode
\* is assistant and the buffer is not empty
Flushed(st) ==
    IF st.current_role = "assistant" /\ st.current_content # << >>
    THEN Append(st.messages, Message("assistant", st.current_content))
    ELSE st.messages

IsRecord(line, type) == line.kind = "record" /\ line.type = type

\* C33: a TurnBegin record leaves the messages it found, followed by the
\* buffered assistant content when there is some, followed by a user message
\* carrying the first non-empty text of payload.user_input when there is one;
\* the mode is assistant and the buffer empty afterwards.
C33_TurnBeginFirstNonEmptyText ==
    loaded.status = "Ok"
        => \A i \in 1..Len(wire.lines) :
              IsRecord(wire.lines[i], "TurnBegin")
                 => LET before == after_lines(wire.lines, i - 1)
                        after == after_lines(wire.lines, i)
                        user_text == FirstNonEmptyText(wire.lines[i].user_input)
                    IN /\ after.messages =
                             Flushed(before)
                                \o (IF user_text # << >>
                                    THEN << Message("user", user_text) >> ELSE << >>)
                       /\ after.current_role = "assistant"
                       /\ after.current_content = << >>

\* C34: a ContentPart record read in assistant mode whose payload type is
\* text leaves the buffer extended by its text and the mode and the messages
\* as they were; a ContentPart record read before the first TurnBegin, a
\* ContentPart of another payload type and a ToolCall record leave the buffer,
\* the mode and the messages as they were.
C34_ContentPartFrame ==
    loaded.status = "Ok"
        => \A i \in 1..Len(wire.lines) :
              (IsRecord(wire.lines[i], "ContentPart") \/ IsRecord(wire.lines[i], "ToolCall"))
                 => LET before == after_lines(wire.lines, i - 1)
                        after == after_lines(wire.lines, i)
                    IN IF before.current_role = "assistant" /\ IsTextPart(wire.lines[i])
                       THEN after = [before EXCEPT
                                       !.current_content = @ \o wire.lines[i].text]
                       ELSE after = before

C34_Witness ==
    /\ loaded.status = "Ok" /\ Len(wire.lines) = MaxLines
    /\ IsTextPart(wire.lines[1])
    /\ IsRecord(wire.lines[2], "TurnBegin")
    /\ IsRecord(wire.lines[3], "ContentPart") /\ wire.lines[3].part_type = "think"
    /\ IsTextPart(wire.lines[4])
    /\ loaded.messages[Len(loaded.messages)] = Message("assistant", wire.lines[4].text)

\* C35: a StepEnd or TurnEnd record adds the buffer as one assistant message
\* exactly when the mode is assistant and the buffer is not empty, and leaves
\* the buffer empty and the mode as it was; what load_messages returns is the
\* messages after the last line, followed by the buffer as one assistant
\* message exactly when the mode is assistant and the buffer is not empty.
C35_FlushOnEnd ==
    loaded.status = "Ok"
        => /\ \A i \in 1..Len(wire.lines) :
                 (IsRecord(wire.lines[i], "StepEnd") \/ IsRecord(wire.lines[i], "TurnEnd"))
                    => LET before == after_lines(wire.lines, i - 1)
                           after == after_lines(wire.lines, i)
                       IN /\ after.messages = Flushed(before)
                          /\ after.current_content = << >>
                          /\ after.current_role = before.current_role
           /\ wire.state = "text"
                 => loaded.messages = Flushed(after_lines(wire.lines, Len(wire.lines)))

C35_Witness ==
    /\ loaded.status = "Ok" /\ Len(wire.lines) = MaxLines
    /\ IsRecord(wire.lines[1], "TurnBegin")
    /\ IsTextPart(wire.lines[2])
    /\ IsRecord(wire.lines[3], "StepEnd")
    /\ IsRecord(wire.lines[4], "TurnEnd")
    /\ Len(SelectSeq(loaded.messages, LAMBDA m : m.role = "assistant")) = 1

\* the contents of the assistant messages of msgs, concatenated in order
RECURSIVE AssistantText(_)
AssistantText(msgs) ==
    IF msgs = << >> THEN << >>
    ELSE (IF Head(msgs).role = "assistant" THEN Head(msgs).content ELSE << >>)
            \o AssistantText(Tail(msgs))

\* the texts of the text parts of lines, concatenated in order, leaving out
\* those before the first TurnBegin (begun: a TurnBegin has been passed)
RECURSIVE PartsText(_, _)
PartsText(lines, begun) ==
    IF lines = << >> THEN << >>
    ELSE IF IsRecord(Head(lines), "TurnBegin") THEN PartsText(Tail(lines), TRUE)
    ELSE (IF begun /\ IsTextPart(Head(lines)) THEN Head(lines).text ELSE << >>)
            \o PartsText(Tail(lines), begun)

\* C40: the contents of the assistant messages load_messages returns,
\* concatenated in order, are the texts of the text parts that follow the
\* first TurnBegin, concatenated in order; and no message it returns has an
\* empty content.
C40_TranscriptConservation ==
    (loaded.status = "Ok" /\ wire.state = "text")
        => /\ AssistantText(loaded.messages) = PartsText(wire.lines, FALSE)
           /\ \A k \in 1..Len(loaded.messages) : loaded.messages[k].content # << >>

C40_Witness ==
    /\ loaded.status = "Ok" /\ Len(wire.lines) = MaxLines
    /\ IsTextPart(wire.lines[1])
    /\ IsRecord(wire.lines[2], "TurnBegin") /\ wire.lines[2].user_input[1].has_text
    /\ IsTextPart(wire.lines[3])
    /\ IsTextPart(wire.lines[4])
    /\ wire.lines[3] # wire.lines[4]
    /\ Len(loaded.messages) = 2
    /\ loaded.messages[2].content = wire.lines[3].text \o wire.lines[4].text

OwnedBy(t) == { a \in approvals : a.owner = t }

\* C36: every entry of the pending map belongs to a turn that is waiting in
\* request_approval for a decision under the entry's key; a key has at most
\* one entry and a turn owns at most one; a turn that has ended owns none.
C36_EntriesOnlyWhileWaiting ==
    /\ \A a \in approvals :
          /\ pc[a.owner] = "approval"
          /\ rx[a.owner].state = "empty"
          /\ a.request_id = session_id[a.owner] \o <<":">> \o ToolCallId(a.owner)
    /\ \A a, b \in approvals : a.request_id = b.request_id => a = b
    /\ \A t \in Turns :
          /\ Cardinality(OwnedBy(t)) <= 1
          /\ Ended(t) => OwnedBy(t) = {}

C36_Witness ==
    /\ pc[1] = "end" /\ OutcomeDone(1) /\ step[1] = MaxOpenRounds + 1
    /\ pc[2] = "approval" /\ rx[2].state = "empty"
    /\ session_id[1] = session_id[2]
    /\ approvals = { [request_id |-> session_id[2] \o <<":">> \o ToolCallId(2), owner |-> 2] }

\* C37: the k-th tool entry of a round carries the id of the k-th descriptor
\* of the round's assistant entry.
C37_ToolEntryMatchesDescriptor ==
    \A t \in Turns :
        \A k \in 1..Len(ToolEntries(t)) :
            /\ messages[t][1].role = "assistant"
            /\ ToolEntries(t)[k].tool_call_id = messages[t][1].tool_calls[k].id

\* the key turn t registers or has registered for its current call
KeyOf(t) == session_id[t] \o <<":">> \o ToolCallId(t)

\* C38: when a turn registers an approval request under a key for which
\* another turn is still waiting, the map holds the new turn's entry alone
\* under that key and the earlier waiter's slot is closed without a decision;
\* a waiter whose slot is closed goes on with the call rejected and not
\* executed; and a decision submitted afterwards leaves a closed slot as it is
\* and is delivered to the turn that owns the entry.
C38_ReplacedWaiterIsRejected ==
    /\ [][\A t, u \in Turns :
            (/\ t # u
             /\ AwaitingDecision(u) /\ [request_id |-> KeyOf(u), owner |-> u] \in approvals
             /\ pc[t] = "call" /\ pc'[t] = "approval"
             /\ KeyOf(t) = KeyOf(u))
               => /\ rx'[u] = ClosedRx
                  /\ { a \in approvals' : a.request_id = KeyOf(u) }
                        = { [request_id |-> KeyOf(u), owner |-> t] }]_vars
    /\ [][\A u \in Turns :
            (pc[u] = "approval" /\ rx[u].state = "closed" /\ pc'[u] \in {"call", "top"})
               => LET h == handled'[u][Len(handled'[u])]
                  IN /\ ~h.executed
                     /\ h.approval = ClosedRx
                     /\ ~LastEvent(u)'.ok
                     /\ LastEvent(u)'.summary = RejectedOutput.summary]_vars
    /\ [][\A u \in Turns, k \in SubmittedRequestIds, approved \in BOOLEAN :
            (rx[u].state = "closed" /\ tool_approval_respond(k, approved))
               => /\ rx'[u] = rx[u]
                  /\ \A t \in Owners(k) :
                        rx'[t] = [state |-> "sent", approved |-> approved,
                                  request_id |-> k]]_vars

C38_Witness ==
    /\ session_id[1] = session_id[2]
    /\ RoundCompleted(1) /\ handled[1][1].approval = ClosedRx /\ ~handled[1][1].executed
    /\ RoundCompleted(2) /\ handled[2][1].executed
    /\ handled[2][1].approval.state = "sent"
    /\ handled[2][1].tool_call_id = handled[1][1].tool_call_id

\* the turn is processing the tool calls of a round or has just completed them
InToolRound(t) == pc[t] \in {"call", "approval", "exec"} \/ RoundCompleted(t)

\* C39: the step that handles a response carrying tool calls appends the
\* assistant entry with the response's non-empty content and its tool calls
\* and emits no chunk and no done event; none has been emitted while the
\* round's calls are processed; and when the round is completed the turn's
\* next step issues another model round, returns the step-budget failure, or
\* ends the turn cancelled.
C39_NoChunkForToolRound ==
    /\ [](\A t \in Turns :
            InToolRound(t) => Count(t, "chunk") = 0 /\ Count(t, "done") = 0)
    /\ [][\A t \in Turns :
            (pc[t] = "model" /\ pc'[t] = "call")
               => /\ calls'[t] # << >>
                  /\ messages'[t] = Append(messages[t],
                                           [role |-> "assistant", content |-> "text",
                                            tool_calls |-> calls'[t]])
                  /\ Count(t, "chunk")' = 0 /\ Count(t, "done")' = 0]_vars
    /\ [][\A t \in Turns :
            (RoundCompleted(t) /\ pc'[t] # pc[t])
               => \/ pc'[t] = "model" /\ step'[t] = step[t] + 1
                  \/ Ended(t)' /\ result'[t] = "Exceeded maximum tool steps"
                     /\ step[t] = MAX_TOOL_STEPS
                  \/ Ended(t)' /\ OutcomeCancelled(t)']_vars

C39_Witness ==
    /\ Ended(1) /\ result[1] = "Exceeded maximum tool steps"
    /\ step[1] = MAX_TOOL_STEPS
    /\ only_tool_rounds[1]
    /\ messages[1][1].content = "text" /\ Len(messages[1][1].tool_calls) = MaxCalls
    /\ Count(1, "chunk") = 0 /\ Count(1, "done") = 0

====
